---- MODULE Spec2Model ----
(***************************************************************************)
(* Verification model of the motorLogger repository: a family of           *)
(* stand-alone motor-logging programs built on the pyX2Cscope client.      *)
(* Each program is a separate script, so each has its own next-state       *)
(* relation and specification over its own variables:                      *)
(*   SpecF10  Forced10secs.py     CaptureWorker.run against stop_early     *)
(*   SpecML   MotorLogger.py      _start_capture, _worker, _worker_done    *)
(*   SpecML4  MotorLogger4.py     run_motor_logger                         *)
(*   SpecTB   tkinter-best.py     _capture_worker against _stop_capture    *)
(*   SpecNV   NewVersion.py       _connect, prepare_scope, _worker         *)
(*   SpecTk   motor_logger_tk.py  start_logging, _capture_thread           *)
(*   SpecFeas tkinter-best.py, motor_logger_gui.py  compute_feas,          *)
(*            compute_feasibility                                          *)
(* The vendor scope object is opaque: whether data is ready, what a read   *)
(* returns and whether a call raises are nondeterministic choices.         *)
(***************************************************************************)
EXTENDS Integers, Sequences, FiniteSets, TLC

VARIABLES
    \* ---- Forced10secs.py ------------------------------------------------
    f10_pc,           \* position of CaptureWorker.run ("none" = no worker yet)
    f10_gui,          \* position of the GUI thread inside on_stop/on_close
    f10_stop_flag,    \* CaptureWorker._stop_flag
    f10_run_sent,     \* CaptureWorker._run_sent
    f10_stop_sent,    \* CaptureWorker._stop_sent
    f10_handles,      \* which control handles _resolve_handles resolved
    f10_run_writes,   \* writes of runMotorRequest=1 for the current worker
    f10_stop_writes,  \* writes of stopMotorRequest=1 for the current worker
    f10_data,         \* CaptureWorker.data: label -> list of samples
    f10_t_axis,       \* CaptureWorker.t_axis, in microseconds
    f10_last,         \* what on_capture_complete was handed (last_data, last_t)
    \* ---- MotorLogger.py --------------------------------------------------
    ml_connected,     \* MotorLoggerGUI.connected (the scope object exists)
    ml_enforce_limit, \* MotorLoggerGUI.enforce_limit
    ml_start_btn,     \* start_btn is in state "normal"
    ml_stop_btn,      \* stop_btn is in state "normal"
    ml_msg,           \* message box shown by the last _start_capture call
    ml_pc,            \* position of the capture thread ("none" = never started)
    ml_stop_flag,     \* MotorLoggerGUI._stop_flag
    ml_done_pending,  \* root.after(0, self._worker_done) is queued
    ml_ts,            \* self.ts, in half milliseconds
    ml_cmd_var,       \* value last written to velocityReference
    ml_scale_factors, \* self.scale_factors
    ml_selected_vars, \* self.selected_vars
    ml_data,          \* self.data: series name -> list
    ml_phase,         \* where the last perf_counter() reading fell (0..3)
    ml_run_sent,      \* _worker local run_sent
    ml_stop_sent,     \* _worker local stop_sent
    ml_sample_idx,    \* _worker local sample_idx
    \* ---- MotorLogger4.py -------------------------------------------------
    ml4_pc,            \* position of run_motor_logger
    ml4_scope,         \* scope: "none" (None), "open", "closed"
    ml4_handles,       \* control symbols with a handle in var_handles
    ml4_run_sent,      \* local run_sent
    ml4_stop_sent,     \* local stop_sent
    ml4_run_written,   \* scope.write(run_var, 1) was carried out
    ml4_stop_attempts, \* calls of scope.write(stop_var, 1)
    ml4_chunks,        \* chunks read in the 10 s loop
    \* ---- tkinter-best.py -------------------------------------------------
    tb_connected,      \* MotorLoggerGUI.connected
    tb_start_btn,      \* start_btn is in state "normal"
    tb_stop_btn,       \* stop_btn is in state "normal"
    tb_gui,            \* position of the GUI thread inside _stop_capture / _disconnect
    tb_pc,             \* position of _capture_worker ("none" = never started)
    tb_stop_flag,      \* MotorLoggerGUI._stop_flag
    tb_done_pending,   \* root.after(0, self._worker_done) is queued
    tb_phase,          \* where the worker's last "now" fell (0..3)
    tb_run_set,        \* _capture_worker local run_set
    tb_stop_set,       \* _capture_worker local stop_set
    tb_confirms,       \* confirmations passed in the current ready round
    tb_run_var,        \* value last written to runMotorRequest
    tb_stop_var,       \* value last written to stopMotorRequest
    tb_wrote_run,      \* this worker has written RUN=1
    tb_wrote_stop,     \* this worker has written STOP=1
    tb_run_after_stop, \* this worker wrote RUN=1 after it had written STOP=1
    tb_user_stopped,   \* _stop_capture was called since this capture started
    tb_confirmed,      \* the loop was left through "if ok: break"
    tb_read,           \* this worker has called scope.read()
    \* ---- NewVersion.py ---------------------------------------------------
    nv_connected,      \* MotorLoggerGUI.connected
    nv_base_us_override, \* _ScopeWrapper.base_us_override (loaded = not None)
    nv_start_btn,      \* start_btn is in state "normal"
    nv_stop_btn,       \* stop_btn is in state "normal"
    nv_pc,             \* position of _worker ("none" = never started)
    nv_stop_flag,      \* MotorLoggerGUI._stop_flag
    nv_done_pending,   \* root.after(0, self._worker_done) is queued
    nv_ts,             \* self.ts, in milliseconds
    nv_prescaler,      \* last argument of set_sample_time (-1: never called)
    nv_scope_dt,       \* self.scope_dt in microseconds (0: never assigned)
    nv_phase,          \* where the worker's last "now" fell (0..3)
    nv_run_set,        \* _worker local run_set
    nv_stop_set,       \* _worker local stop_set
    nv_died,           \* the last worker ended by an uncaught exception
    \* ---- motor_logger_tk.py ----------------------------------------------
    tk_x2c_available,  \* the import of X2CScope succeeded (X2CScope is not None)
    tk_scope,          \* MotorLoggerApp.scope is set
    tk_start_btn,      \* start_btn is in state NORMAL
    tk_stop_btn,       \* stop_btn is in state NORMAL
    tk_msg,            \* message box shown by the last start_logging call
    tk_running,        \* capture threads that have not finished
    tk_queue,          \* data of the queued _display_data callbacks
    tk_output,         \* what the output text shows
    \* ---- feasibility panels (tkinter-best.py, motor_logger_gui.py) --------
    feas_inp,          \* the panel entries: f, Bv_list, baud
    feas_out,          \* FeasOutputs of compute_feas (tkinter-best.py)
    feas_res           \* FeasibilityResult of compute_feasibility (motor_logger_gui.py)

f10cap == <<f10_data, f10_t_axis, f10_last>>

f10vars == <<f10_pc, f10_gui, f10_stop_flag, f10_run_sent, f10_stop_sent,
             f10_handles, f10_run_writes, f10_stop_writes, f10cap>>

mlvars == <<ml_connected, ml_enforce_limit, ml_start_btn, ml_stop_btn, ml_msg,
            ml_pc, ml_stop_flag, ml_done_pending, ml_ts, ml_cmd_var,
            ml_scale_factors, ml_selected_vars, ml_data, ml_phase, ml_run_sent,
            ml_stop_sent, ml_sample_idx>>

ml4vars == <<ml4_pc, ml4_scope, ml4_handles, ml4_run_sent, ml4_stop_sent,
             ml4_run_written, ml4_stop_attempts, ml4_chunks>>

tbvars == <<tb_connected, tb_start_btn, tb_stop_btn, tb_gui, tb_pc,
            tb_stop_flag, tb_done_pending, tb_phase, tb_run_set, tb_stop_set,
            tb_confirms, tb_run_var, tb_stop_var, tb_wrote_run, tb_wrote_stop,
            tb_run_after_stop, tb_user_stopped, tb_confirmed, tb_read>>

nvvars == <<nv_connected, nv_base_us_override, nv_start_btn, nv_stop_btn,
            nv_pc, nv_stop_flag, nv_done_pending, nv_ts, nv_prescaler,
            nv_scope_dt, nv_phase, nv_run_set, nv_stop_set, nv_died>>

tkvars == <<tk_x2c_available, tk_scope, tk_start_btn, tk_stop_btn, tk_msg,
            tk_running, tk_queue, tk_output>>

feasvars == <<feas_inp, feas_out, feas_res>>

vars == <<f10vars, mlvars, ml4vars, tbvars, nvvars, tkvars, feasvars>>

notF10 == <<mlvars, ml4vars, tbvars, nvvars, tkvars, feasvars>>
notML == <<f10vars, ml4vars, tbvars, nvvars, tkvars, feasvars>>
notML4 == <<f10vars, mlvars, tbvars, nvvars, tkvars, feasvars>>
notTB == <<f10vars, mlvars, ml4vars, nvvars, tkvars, feasvars>>
notNV == <<f10vars, mlvars, ml4vars, tbvars, tkvars, feasvars>>
notTk == <<f10vars, mlvars, ml4vars, tbvars, nvvars, feasvars>>
notFeas == <<f10vars, mlvars, ml4vars, tbvars, nvvars, tkvars>>

(***************************************************************************)
(* Bounds of the model                                                     *)
(***************************************************************************)
\* samples the scope delivers per channel in one capture
MaxSamples == 2
\* largest sample interval typed into the GUI, in half milliseconds
MaxDt == 2
\* chunks MotorLogger4.py reads in its capture loop
MaxChunks == 2
\* largest sample interval typed into NewVersion.py, in milliseconds
MaxMs == 2
\* capture threads and queued callbacks of motor_logger_tk.py at one time
MaxTkThreads == 3
\* largest sample-time factor f set on a feasibility panel
MaxF == 20

\* Python list slice xs[:n]
PySlice(xs, n) == [i \in 1..(IF n < Len(xs) THEN n ELSE Len(xs)) |-> xs[i]]

(***************************************************************************)
(* Forced10secs.py                                                         *)
(***************************************************************************)
F10_CTRL == {"run_req", "stop_req"}

\* the labels of MONITOR_VARS, in list order (two of the five)
MONITOR_VARS == <<"Idq_q", "OmegaCmd">>

\* the forced sampling model: base period in microseconds, decimation factor,
\* and TS_S, the effective period, here in microseconds
RAW_SAMPLE_TIME_US == 50
FACTOR_F == 450
TS_US == FACTOR_F * RAW_SAMPLE_TIME_US

F10Labels == {MONITOR_VARS[i] : i \in 1..Len(MONITOR_VARS)}

\* the j-th sample the target delivers on scope channel i
F10Raw(i, j) == 10 * i + j

\* min(..., default=0) over a set of lengths
F10Min(S) == IF S = {} THEN 0 ELSE CHOOSE n \in S : \A m \in S : n <= m

\* list(chunk.values()) of one get_scope_channel_data(): one list per scope
\* channel that was added (a handle that is None adds none), each with up to
\* MaxSamples samples
F10Chunks ==
    { [i \in 1..c |-> [j \in 1..lens[i] |-> F10Raw(i, j)]] :
        c \in 0..Len(MONITOR_VARS), lens \in [1..Len(MONITOR_VARS) -> 0..MaxSamples] }

\* "Align by channel insertion order": every label with a list in seq gets
\* the first m samples of it, m the shortest list of the chunk
F10Extend(data, seq) ==
    LET m == F10Min({Len(seq[i]) : i \in 1..Len(seq)})
    IN  [lbl \in DOMAIN data |->
            LET i == CHOOSE x \in 1..Len(MONITOR_VARS) : MONITOR_VARS[x] = lbl
            IN  IF i <= Len(seq) THEN data[lbl] \o PySlice(seq[i], m)
                ELSE data[lbl]]

\* a chunk the model lets the scope deliver: no list beyond MaxSamples
F10Fits(seq) ==
    \A lbl \in F10Labels : Len(F10Extend(f10_data, seq)[lbl]) <= MaxSamples

\* MotorLoggerApp.__init__ and connect(): no worker yet; _resolve_handles
\* leaves None for every control symbol get_variable failed on
F10Start(handles) ==
    /\ f10_pc = "none"
    /\ f10_gui = "idle"
    /\ f10_stop_flag = FALSE
    /\ f10_run_sent = FALSE
    /\ f10_stop_sent = FALSE
    /\ f10_handles = handles
    /\ f10_run_writes = 0
    /\ f10_stop_writes = 0
    /\ f10_data = [lbl \in F10Labels |-> << >>]
    /\ f10_t_axis = << >>
    /\ f10_last = [done |-> FALSE, data |-> [lbl \in F10Labels |-> << >>],
                   t |-> << >>]

F10Init == \E handles \in SUBSET F10_CTRL : F10Start(handles)

\* threading.Thread.is_alive() of the current worker
F10Alive == f10_pc \notin {"none", "done"}

\* try_write on a control handle: nothing is written when the handle is None
F10TryWrite(count, sym) == IF sym \in f10_handles THEN count + 1 ELSE count

\* on_start: a new CaptureWorker (fresh flags) is created and started
F10OnStart ==
    /\ f10_gui = "idle"
    /\ ~F10Alive
    /\ f10_pc' = "baseline"
    /\ f10_stop_flag' = FALSE
    /\ f10_run_sent' = FALSE
    /\ f10_stop_sent' = FALSE
    /\ f10_run_writes' = 0
    /\ f10_stop_writes' = 0
    /\ f10_data' = [lbl \in F10Labels |-> << >>]
    /\ f10_t_axis' = << >>
    /\ UNCHANGED f10_last
    /\ UNCHANGED notF10
    /\ UNCHANGED <<f10_gui, f10_handles>>

\* run(): channel setup, velocityReference, arm, then the baseline wait, which
\* ends when BASELINE_SECONDS elapsed or the stop flag is seen
F10Baseline ==
    /\ f10_pc = "baseline"
    /\ f10_pc' = "run_check"
    /\ UNCHANGED notF10
    /\ UNCHANGED f10cap
    /\ UNCHANGED <<f10_gui, f10_stop_flag, f10_run_sent, f10_stop_sent,
                   f10_handles, f10_run_writes, f10_stop_writes>>

\* run(): "if not self._stop_flag.is_set() and not self._run_sent"
F10RunCheck ==
    /\ f10_pc = "run_check"
    /\ f10_pc' = IF ~f10_stop_flag /\ ~f10_run_sent THEN "run_write" ELSE "capture"
    /\ UNCHANGED notF10
    /\ UNCHANGED f10cap
    /\ UNCHANGED <<f10_gui, f10_stop_flag, f10_run_sent, f10_stop_sent,
                   f10_handles, f10_run_writes, f10_stop_writes>>

\* run(): one-shot RUN: try_write(run_h, 1); self._run_sent = True
F10RunWrite ==
    /\ f10_pc = "run_write"
    /\ f10_run_writes' = F10TryWrite(f10_run_writes, "run_req")
    /\ f10_run_sent' = TRUE
    /\ f10_pc' = "capture"
    /\ UNCHANGED notF10
    /\ UNCHANGED f10cap
    /\ UNCHANGED <<f10_gui, f10_stop_flag, f10_stop_sent, f10_handles,
                   f10_stop_writes>>

\* run(): one pass of the capture loop that stays in the loop: poll; when the
\* data is ready read the chunk seq, align it and re-arm
F10CapturePoll(ready, seq) ==
    /\ f10_pc = "capture"
    /\ ~f10_stop_flag
    /\ IF ready
       THEN /\ F10Fits(seq)
            /\ f10_data' = F10Extend(f10_data, seq)
       ELSE /\ seq = << >>
            /\ UNCHANGED f10_data
    /\ UNCHANGED notF10
    /\ UNCHANGED <<f10_pc, f10_gui, f10_stop_flag, f10_run_sent, f10_stop_sent,
                   f10_handles, f10_run_writes, f10_stop_writes, f10_t_axis,
                   f10_last>>

\* run(): the capture loop ends: RUN_SECONDS elapsed or the stop flag is set
F10CaptureExit ==
    /\ f10_pc = "capture"
    /\ f10_pc' = "stop_check"
    /\ UNCHANGED notF10
    /\ UNCHANGED f10cap
    /\ UNCHANGED <<f10_gui, f10_stop_flag, f10_run_sent, f10_stop_sent,
                   f10_handles, f10_run_writes, f10_stop_writes>>

\* run(): is_scope_data_ready() is called outside any inner try: when it raises,
\* control goes to "except Exception" and then to the finally block
F10CaptureRaise ==
    /\ f10_pc = "capture"
    /\ ~f10_stop_flag
    /\ f10_pc' = "finally_check"
    /\ UNCHANGED notF10
    /\ UNCHANGED f10cap
    /\ UNCHANGED <<f10_gui, f10_stop_flag, f10_run_sent, f10_stop_sent,
                   f10_handles, f10_run_writes, f10_stop_writes>>

\* run(): "if not self._stop_sent" before the one-shot STOP
F10StopCheck ==
    /\ f10_pc = "stop_check"
    /\ f10_pc' = IF ~f10_stop_sent THEN "stop_write" ELSE "tail"
    /\ UNCHANGED notF10
    /\ UNCHANGED f10cap
    /\ UNCHANGED <<f10_gui, f10_stop_flag, f10_run_sent, f10_stop_sent,
                   f10_handles, f10_run_writes, f10_stop_writes>>

\* run(): try_write(stop_h, 1)
F10StopWrite ==
    /\ f10_pc = "stop_write"
    /\ f10_stop_writes' = F10TryWrite(f10_stop_writes, "stop_req")
    /\ f10_pc' = "stop_mark"
    /\ UNCHANGED notF10
    /\ UNCHANGED f10cap
    /\ UNCHANGED <<f10_gui, f10_stop_flag, f10_run_sent, f10_stop_sent,
                   f10_handles, f10_run_writes>>

\* run(): self._stop_sent = True
F10StopMark ==
    /\ f10_pc = "stop_mark"
    /\ f10_stop_sent' = TRUE
    /\ f10_pc' = "tail"
    /\ UNCHANGED notF10
    /\ UNCHANGED f10cap
    /\ UNCHANGED <<f10_gui, f10_stop_flag, f10_run_sent, f10_handles,
                   f10_run_writes, f10_stop_writes>>

\* run(): tail wait and final read: when the data is ready the chunk seq is
\* aligned like the others; an exception of the read is swallowed
F10Tail(ready, seq) ==
    /\ f10_pc = "tail"
    /\ f10_pc' = "axis"
    /\ IF ready
       THEN /\ F10Fits(seq)
            /\ f10_data' = F10Extend(f10_data, seq)
       ELSE /\ seq = << >>
            /\ UNCHANGED f10_data
    /\ UNCHANGED notF10
    /\ UNCHANGED <<f10_gui, f10_stop_flag, f10_run_sent, f10_stop_sent,
                   f10_handles, f10_run_writes, f10_stop_writes, f10_t_axis,
                   f10_last>>

\* run(): every list cut to the shortest one, but the time axis built for the
\* longest
F10Complete_LongAxis ==
    /\ f10_pc = "axis"
    /\ LET n_min == F10Min({Len(f10_data[lbl]) : lbl \in DOMAIN f10_data})
           n_max == CHOOSE n \in {Len(f10_data[lbl]) : lbl \in DOMAIN f10_data} :
                        \A lbl \in DOMAIN f10_data : Len(f10_data[lbl]) <= n
           cut == [lbl \in DOMAIN f10_data |-> PySlice(f10_data[lbl], n_min)]
           axis == [i \in 1..n_max |-> (i - 1) * TS_US]
       IN  /\ f10_data' = cut
           /\ f10_t_axis' = axis
           /\ f10_last' = [done |-> TRUE, data |-> cut, t |-> axis]
    /\ f10_pc' = "finally_check"
    /\ UNCHANGED notF10
    /\ UNCHANGED <<f10_gui, f10_stop_flag, f10_run_sent, f10_stop_sent,
                   f10_handles, f10_run_writes, f10_stop_writes>>

\* run(): "Build time axis with FIXED Ts": every list is cut to n_min, t_axis
\* is [i * TS_S for i in range(n_min)], and on_capture_complete stores both
\* in last_data / last_t; then the finally block
F10Complete ==
    /\ f10_pc = "axis"
    /\ LET n_min == F10Min({Len(f10_data[lbl]) : lbl \in DOMAIN f10_data})
           cut == [lbl \in DOMAIN f10_data |-> PySlice(f10_data[lbl], n_min)]
           axis == [i \in 1..n_min |-> (i - 1) * TS_US]
       IN  /\ f10_data' = cut
           /\ f10_t_axis' = axis
           /\ f10_last' = [done |-> TRUE, data |-> cut, t |-> axis]
    /\ f10_pc' = "finally_check"
    /\ UNCHANGED notF10
    /\ UNCHANGED <<f10_gui, f10_stop_flag, f10_run_sent, f10_stop_sent,
                   f10_handles, f10_run_writes, f10_stop_writes>>

\* run(), finally: "if self._run_sent and not self._stop_sent"
F10FinallyCheck ==
    /\ f10_pc = "finally_check"
    /\ f10_pc' = IF f10_run_sent /\ ~f10_stop_sent THEN "finally_write" ELSE "done"
    /\ UNCHANGED notF10
    /\ UNCHANGED f10cap
    /\ UNCHANGED <<f10_gui, f10_stop_flag, f10_run_sent, f10_stop_sent,
                   f10_handles, f10_run_writes, f10_stop_writes>>

\* run(), finally: try_write(h, 1); _stop_sent is not set here
F10FinallyWrite ==
    /\ f10_pc = "finally_write"
    /\ f10_stop_writes' = F10TryWrite(f10_stop_writes, "stop_req")
    /\ f10_pc' = "done"
    /\ UNCHANGED notF10
    /\ UNCHANGED f10cap
    /\ UNCHANGED <<f10_gui, f10_stop_flag, f10_run_sent, f10_stop_sent,
                   f10_handles, f10_run_writes>>

\* on_stop / on_close: with a live worker self.worker.stop_early() is entered;
\* without one on_stop writes a best-effort STOP that belongs to no worker
F10OnStop ==
    /\ f10_gui = "idle"
    /\ f10_gui' = IF F10Alive THEN "se_check" ELSE "idle"
    /\ UNCHANGED notF10
    /\ UNCHANGED f10cap
    /\ UNCHANGED <<f10_pc, f10_stop_flag, f10_run_sent, f10_stop_sent,
                   f10_handles, f10_run_writes, f10_stop_writes>>

\* stop_early(): "if not self._stop_sent"
F10StopEarlyCheck ==
    /\ f10_gui = "se_check"
    /\ f10_gui' = IF ~f10_stop_sent THEN "se_write" ELSE "se_flag"
    /\ UNCHANGED notF10
    /\ UNCHANGED f10cap
    /\ UNCHANGED <<f10_pc, f10_stop_flag, f10_run_sent, f10_stop_sent,
                   f10_handles, f10_run_writes, f10_stop_writes>>

\* stop_early(): try_write(self.x2c, h, 1)
F10StopEarlyWrite ==
    /\ f10_gui = "se_write"
    /\ f10_stop_writes' = F10TryWrite(f10_stop_writes, "stop_req")
    /\ f10_gui' = "se_mark"
    /\ UNCHANGED notF10
    /\ UNCHANGED f10cap
    /\ UNCHANGED <<f10_pc, f10_stop_flag, f10_run_sent, f10_stop_sent,
                   f10_handles, f10_run_writes>>

\* stop_early(): self._stop_sent = True
F10StopEarlyMark ==
    /\ f10_gui = "se_mark"
    /\ f10_stop_sent' = TRUE
    /\ f10_gui' = "se_flag"
    /\ UNCHANGED notF10
    /\ UNCHANGED f10cap
    /\ UNCHANGED <<f10_pc, f10_stop_flag, f10_run_sent, f10_handles,
                   f10_run_writes, f10_stop_writes>>

\* stop_early(): self._stop_flag.set()
F10StopEarlyFlag ==
    /\ f10_gui = "se_flag"
    /\ f10_stop_flag' = TRUE
    /\ f10_gui' = "idle"
    /\ UNCHANGED notF10
    /\ UNCHANGED f10cap
    /\ UNCHANGED <<f10_pc, f10_run_sent, f10_stop_sent, f10_handles,
                   f10_run_writes, f10_stop_writes>>

F10Next ==
    \/ F10OnStart
    \/ F10Baseline
    \/ F10RunCheck
    \/ F10RunWrite
    \/ \E seq \in F10Chunks : F10CapturePoll(TRUE, seq)
    \/ F10CapturePoll(FALSE, << >>)
    \/ F10CaptureExit
    \/ F10CaptureRaise
    \/ F10StopCheck
    \/ F10StopWrite
    \/ F10StopMark
    \/ \E seq \in F10Chunks : F10Tail(TRUE, seq)
    \/ F10Tail(FALSE, << >>)
    \/ F10Complete
    \/ F10FinallyCheck
    \/ F10FinallyWrite
    \/ F10OnStop
    \/ F10StopEarlyCheck
    \/ F10StopEarlyWrite
    \/ F10StopEarlyMark
    \/ F10StopEarlyFlag

(***************************************************************************)
(* MotorLogger.py                                                          *)
(* Times are in half milliseconds for the sample interval.  The worker's   *)
(* clock is kept as the phase the last perf_counter() reading fell in:     *)
(* 0 before run_cmd_time, 1 in [run_cmd_time, stop_cmd_time), 2 in         *)
(* [stop_cmd_time, end_time), 3 at or after end_time.  dur > 0 and the     *)
(* PRE_START / POST_STOP constants make every phase non-empty, and one    *)
(* loop pass can take arbitrarily long, so a reading may skip phases.      *)
(***************************************************************************)
MIN_DELAY_MS == 1

\* the logged channels of VAR_PATHS, in dictionary order (two of the five)
VAR_KEYS == <<"Idq_q", "OmegaCmd">>
KeySet == {VAR_KEYS[i] : i \in 1..Len(VAR_KEYS)}
KeyIndex(k) == CHOOSE i \in 1..Len(VAR_KEYS) : VAR_KEYS[i] = k

\* contents of the Scaling tab when START is pressed: the first channel
\* edited to the number 2, the others to text that is no number (the defaults,
\* "1.0" everywhere, are what scale_factors starts with)
ScaleTabs ==
    { [k \in KeySet |-> IF k = VAR_KEYS[1] THEN [num |-> TRUE, val |-> 2]
                                           ELSE [num |-> FALSE, val |-> 0]] }
\* speed entry (RPM) and scale entry (RPM per count)
RpmEntries == {3}
RpmScaleEntries == {2}

\* the entries _start_capture reads; valid = FALSE stands for an entry that
\* does not parse or has rpm < 0, scale <= 0 or dur <= 0 (the other fields
\* are then not looked at, so one combination of them is enough)
MLInputs ==
    { [valid |-> TRUE, rpm |-> r, scale |-> s, dt |-> d, sel |-> v, scl |-> c] :
        r \in RpmEntries, s \in RpmScaleEntries, d \in 0..MaxDt,
        v \in SUBSET KeySet, c \in ScaleTabs }
    \cup
    { [valid |-> FALSE, rpm |-> r, scale |-> s, dt |-> MaxDt, sel |-> KeySet,
       scl |-> c] :
        r \in RpmEntries, s \in RpmScaleEntries, c \in ScaleTabs }

\* Python round(a / b) for a >= 0, b > 0: ties go to the even neighbour
PyRound(a, b) ==
    LET q == a \div b
        r == a % b
    IN  IF 2 * r < b THEN q
        ELSE IF 2 * r > b THEN q + 1
        ELSE IF q % 2 = 0 THEN q ELSE q + 1

\* float(self.scale_vars[k].get()), 1.0 on ValueError
MLParseScale(e) == IF e.num THEN e.val ELSE 1

\* the guard with its comparison reversed
MLGuardBlocks_Reversed(dt) == ml_enforce_limit /\ dt > 2 * MIN_DELAY_MS

\* "if self.enforce_limit: if dt_ms < MIN_DELAY_MS: ... return"
MLGuardBlocks(dt) == ml_enforce_limit /\ dt < 2 * MIN_DELAY_MS

\* the raw sample the target delivers as the j-th sample of channel k
RawSample(k, j) == KeyIndex(k) + j

\* self._cap_thread.is_alive()
MLAlive == ml_pc \in {"prep", "loop"}

\* the first list of the dict the scope returns: the first selected channel
MLFirstKey(sel) == VAR_KEYS[CHOOSE i \in 1..Len(VAR_KEYS) :
                       /\ VAR_KEYS[i] \in sel
                       /\ \A j \in 1..(i - 1) : VAR_KEYS[j] \notin sel]

MLInit ==
    /\ ml_connected = FALSE
    /\ ml_enforce_limit = TRUE
    /\ ml_start_btn = FALSE
    /\ ml_stop_btn = FALSE
    /\ ml_msg = "none"
    /\ ml_pc = "none"
    /\ ml_stop_flag = FALSE
    /\ ml_done_pending = FALSE
    /\ ml_ts = 0
    /\ ml_cmd_var = 0
    /\ ml_scale_factors = [k \in KeySet |-> 1]
    /\ ml_selected_vars = KeySet
    /\ ml_data = << >>
    /\ ml_phase = 0
    /\ ml_run_sent = FALSE
    /\ ml_stop_sent = FALSE
    /\ ml_sample_idx = 0

\* _connect: ok = FALSE is a missing port / ELF or an exception while connecting
MLConnect(ok) ==
    /\ ~ml_connected
    /\ IF ok
       THEN /\ ml_connected' = TRUE
            /\ ml_start_btn' = TRUE
       ELSE UNCHANGED <<ml_connected, ml_start_btn>>
    /\ ml_msg' = "none"
    /\ UNCHANGED <<ml_enforce_limit, ml_stop_btn, ml_pc, ml_stop_flag,
                   ml_done_pending, ml_ts, ml_cmd_var, ml_scale_factors,
                   ml_selected_vars, ml_data, ml_phase, ml_run_sent,
                   ml_stop_sent, ml_sample_idx>>
    /\ UNCHANGED notML

\* _disconnect: _stop_capture(), scope.disconnect(), buttons disabled
MLDisconnect ==
    /\ ml_connected
    /\ ml_stop_flag' = TRUE
    /\ ml_connected' = FALSE
    /\ ml_start_btn' = FALSE
    /\ ml_stop_btn' = FALSE
    /\ ml_msg' = "none"
    /\ UNCHANGED <<ml_enforce_limit, ml_pc, ml_done_pending, ml_ts,
                   ml_cmd_var, ml_scale_factors, ml_selected_vars, ml_data,
                   ml_phase, ml_run_sent, ml_stop_sent, ml_sample_idx>>
    /\ UNCHANGED notML

\* _toggle_guard
MLToggleGuard ==
    /\ ml_enforce_limit' = ~ml_enforce_limit
    /\ ml_msg' = "none"
    /\ UNCHANGED <<ml_connected, ml_start_btn, ml_stop_btn, ml_pc,
                   ml_stop_flag, ml_done_pending, ml_ts, ml_cmd_var,
                   ml_scale_factors, ml_selected_vars, ml_data, ml_phase,
                   ml_run_sent, ml_stop_sent, ml_sample_idx>>
    /\ UNCHANGED notML

\* _stop_capture, from the STOP button
MLStopCapture ==
    /\ ml_stop_btn
    /\ ml_stop_flag' = TRUE
    /\ ml_msg' = "none"
    /\ UNCHANGED <<ml_connected, ml_enforce_limit, ml_start_btn, ml_stop_btn,
                   ml_pc, ml_done_pending, ml_ts, ml_cmd_var,
                   ml_scale_factors, ml_selected_vars, ml_data, ml_phase,
                   ml_run_sent, ml_stop_sent, ml_sample_idx>>
    /\ UNCHANGED notML

\* _start_capture, from the START button, with the entries inp
MLStartCapture(inp) ==
    /\ ml_start_btn
    /\ LET factors == [k \in KeySet |-> MLParseScale(inp.scl[k])]
           same == <<ml_connected, ml_enforce_limit, ml_done_pending>>
           rest == <<ml_start_btn, ml_stop_btn, ml_pc, ml_stop_flag, ml_ts,
                     ml_cmd_var, ml_data, ml_phase, ml_run_sent, ml_stop_sent,
                     ml_sample_idx>>
       IN  IF MLAlive
           THEN /\ ml_msg' = "none"
                /\ UNCHANGED <<same, rest, ml_scale_factors, ml_selected_vars>>
           ELSE IF ~inp.valid \/ inp.dt <= 0
           THEN /\ ml_msg' = "Input"
                /\ UNCHANGED <<same, rest, ml_scale_factors, ml_selected_vars>>
           ELSE IF ~ml_connected
           THEN /\ ml_msg' = "Not connected"
                /\ UNCHANGED <<same, rest, ml_scale_factors, ml_selected_vars>>
           ELSE IF inp.sel = {}
           THEN /\ ml_msg' = "Variables"
                /\ ml_scale_factors' = factors
                /\ ml_selected_vars' = inp.sel
                /\ UNCHANGED <<same, rest>>
           ELSE IF MLGuardBlocks(inp.dt)
           THEN /\ ml_msg' = "Sample interval"
                /\ ml_scale_factors' = factors
                /\ ml_selected_vars' = inp.sel
                /\ UNCHANGED <<same, rest>>
           ELSE /\ ml_msg' = "none"
                /\ ml_scale_factors' = factors
                /\ ml_selected_vars' = inp.sel
                /\ ml_data' = [k \in inp.sel \cup {"t", "MotorRunning"} |-> << >>]
                /\ ml_stop_flag' = FALSE
                /\ ml_ts' = inp.dt
                /\ ml_cmd_var' = PyRound(inp.rpm, inp.scale)
                /\ ml_pc' = "prep"
                /\ ml_start_btn' = FALSE
                /\ ml_stop_btn' = TRUE
                /\ ml_phase' = 0
                /\ ml_run_sent' = FALSE
                /\ ml_stop_sent' = FALSE
                /\ ml_sample_idx' = 0
                /\ UNCHANGED same
    /\ UNCHANGED notML

\* the dict one get_scope_data() returns: for each configured channel a list
\* of lens[k] raw samples
MLChans(lens) ==
    [k \in DOMAIN lens |->
        [i \in 1..lens[k] |-> RawSample(k, Len(ml_data[k]) + i)]]

\* the list lengths a read can deliver: at most MaxSamples samples per channel
\* and per capture
MLLens ==
    IF ml_pc # "loop" THEN {}
    ELSE { lens \in [ml_selected_vars -> 0..MaxSamples] :
            \A k \in ml_selected_vars : Len(ml_data[k]) + lens[k] <= MaxSamples }

\* the "if chans:" body without the multiplication by scale_factors[key]
MLAppend_Unscaled(data, chans, idx, running) ==
    LET n == Len(chans[MLFirstKey(DOMAIN chans)])
    IN  [s \in DOMAIN data |->
            IF s = "t"
            THEN data[s] \o [i \in 1..n |-> (idx + i - 1) * ml_ts]
            ELSE IF s = "MotorRunning"
            THEN data[s] \o [i \in 1..n |-> IF running THEN 1 ELSE 0]
            ELSE IF s \in DOMAIN chans
            THEN data[s] \o chans[s]
            ELSE data[s]]

\* _worker, "if chans:" body: extend t, MotorRunning and every non-empty channel
MLAppend(data, chans, idx, running) ==
    LET n == Len(chans[MLFirstKey(DOMAIN chans)])
    IN  [s \in DOMAIN data |->
            IF s = "t"
            THEN data[s] \o [i \in 1..n |-> (idx + i - 1) * ml_ts]
            ELSE IF s = "MotorRunning"
            THEN data[s] \o [i \in 1..n |-> IF running THEN 1 ELSE 0]
            ELSE IF s \in DOMAIN chans
            THEN data[s] \o [i \in 1..Len(chans[s]) |->
                                chans[s][i] * ml_scale_factors[s]]
            ELSE data[s]]

\* the thread ends: its locals are gone, finally queues _worker_done
MLThreadEnd ==
    /\ ml_pc' = "done"
    /\ ml_done_pending' = TRUE
    /\ ml_phase' = 0
    /\ ml_run_sent' = FALSE
    /\ ml_stop_sent' = FALSE
    /\ ml_sample_idx' = 0

\* _worker up to the loop: stop_var.set_value(0), prepare_scope(...); a call of
\* the scope client that raises ends the thread through the finally block
MLWorkerPrep(raises) ==
    /\ ml_pc = "prep"
    /\ IF raises
       THEN MLThreadEnd
       ELSE /\ ml_pc' = "loop"
            /\ ml_phase' = 0
            /\ ml_run_sent' = FALSE
            /\ ml_stop_sent' = FALSE
            /\ ml_sample_idx' = 0
            /\ UNCHANGED ml_done_pending
    /\ UNCHANGED <<ml_connected, ml_enforce_limit, ml_start_btn, ml_stop_btn,
                   ml_msg, ml_stop_flag, ml_ts, ml_cmd_var, ml_scale_factors,
                   ml_selected_vars, ml_data>>
    /\ UNCHANGED notML

\* _worker: the while condition fails (stop flag set, or end_time reached)
MLWorkerExit ==
    /\ ml_pc = "loop"
    /\ MLThreadEnd
    /\ UNCHANGED <<ml_connected, ml_enforce_limit, ml_start_btn, ml_stop_btn,
                   ml_msg, ml_stop_flag, ml_ts, ml_cmd_var, ml_scale_factors,
                   ml_selected_vars, ml_data>>
    /\ UNCHANGED notML

\* _worker: "if not run_sent and now >= run_cmd_time" for now in phase p
MLDoRun(p) == ~ml_run_sent /\ p >= 1

\* _worker: "if not stop_sent and now >= stop_cmd_time" for now in phase p
MLDoStop(p) == ~ml_stop_sent /\ p >= 2

\* _worker: the RUN / STOP writes of one pass of the loop body, now in phase p
MLPassWrites(p) ==
    /\ ml_pc = "loop"
    /\ ~ml_stop_flag
    /\ ml_phase < 3
    /\ p >= ml_phase
    /\ ml_phase' = p
    /\ ml_run_sent' = (ml_run_sent \/ MLDoRun(p))
    /\ ml_stop_sent' = (ml_stop_sent \/ MLDoStop(p))

\* _worker: one pass of the loop body in which scope_ready() is false
MLWorkerIdle(p) ==
    /\ MLPassWrites(p)
    /\ UNCHANGED <<ml_data, ml_sample_idx>>
    /\ UNCHANGED <<ml_connected, ml_enforce_limit, ml_start_btn, ml_stop_btn,
                   ml_msg, ml_pc, ml_stop_flag, ml_done_pending, ml_ts,
                   ml_cmd_var, ml_scale_factors, ml_selected_vars>>
    /\ UNCHANGED notML

\* _worker: one pass of the loop body in which scope_ready() is true and the
\* chunk read has lens[k] samples for channel k
MLWorkerPass(p, lens) ==
    /\ MLPassWrites(p)
    /\ ml_connected
    /\ ml_data' = MLAppend(ml_data, MLChans(lens), ml_sample_idx, p = 1)
    /\ ml_sample_idx' = ml_sample_idx + lens[MLFirstKey(DOMAIN lens)]
    /\ UNCHANGED <<ml_connected, ml_enforce_limit, ml_start_btn, ml_stop_btn,
                   ml_msg, ml_pc, ml_stop_flag, ml_done_pending, ml_ts,
                   ml_cmd_var, ml_scale_factors, ml_selected_vars>>
    /\ UNCHANGED notML

\* _worker: a pass of the loop body whose first call of the scope client
\* raises (run_var.set_value, stop_var.set_value, scope_ready, ...): nothing is
\* written in it, and the exception ends the thread through the finally block
MLWorkerRaise ==
    /\ ml_pc = "loop"
    /\ ~ml_stop_flag
    /\ ml_phase < 3
    /\ MLThreadEnd
    /\ UNCHANGED <<ml_connected, ml_enforce_limit, ml_start_btn, ml_stop_btn,
                   ml_msg, ml_stop_flag, ml_ts, ml_cmd_var, ml_scale_factors,
                   ml_selected_vars, ml_data>>
    /\ UNCHANGED notML

\* _worker_done, run by the Tk main loop
MLWorkerDone ==
    /\ ml_done_pending
    /\ ml_done_pending' = FALSE
    /\ ml_start_btn' = TRUE
    /\ ml_stop_btn' = FALSE
    /\ IF "t" \in DOMAIN ml_data /\ ml_data["t"] # << >>
       THEN ml_data' = [s \in DOMAIN ml_data |->
                IF s # "t" /\ Len(ml_data[s]) # Len(ml_data["t"])
                THEN PySlice(ml_data[s], Len(ml_data["t"]))
                ELSE ml_data[s]]
       ELSE UNCHANGED ml_data
    /\ UNCHANGED <<ml_connected, ml_enforce_limit, ml_msg, ml_pc, ml_stop_flag,
                   ml_ts, ml_cmd_var, ml_scale_factors, ml_selected_vars,
                   ml_phase, ml_run_sent, ml_stop_sent, ml_sample_idx>>
    /\ UNCHANGED notML

MLNext ==
    \/ \E ok \in BOOLEAN : MLConnect(ok)
    \/ MLDisconnect
    \/ MLToggleGuard
    \/ MLStopCapture
    \/ \E inp \in MLInputs : MLStartCapture(inp)
    \/ \E raises \in BOOLEAN : MLWorkerPrep(raises)
    \/ MLWorkerExit
    \/ \E p \in 0..3 : MLWorkerIdle(p)
    \/ \E p \in 0..3, lens \in MLLens : MLWorkerPass(p, lens)
    \/ MLWorkerRaise
    \/ MLWorkerDone

(***************************************************************************)
(* MotorLogger4.py                                                         *)
(* run_motor_logger is one straight run through try / except / finally.    *)
(* A scope call that is not wrapped in an inner try may raise, and Ctrl-C   *)
(* (KeyboardInterrupt) may arrive between any two statements of the try     *)
(* body; interrupts that arrive inside the finally block are not modelled.  *)
(***************************************************************************)
ML4_CTRL == {"run_req", "stop_req"}

\* run_motor_logger entry: scope = None, run_sent = stop_sent = False
ML4Init ==
    /\ ml4_pc = "start"
    /\ ml4_scope = "none"
    /\ ml4_handles = {}
    /\ ml4_run_sent = FALSE
    /\ ml4_stop_sent = FALSE
    /\ ml4_run_written = FALSE
    /\ ml4_stop_attempts = 0
    /\ ml4_chunks = 0

\* scope = X2CScope(...): ok = FALSE is a constructor that raises
ML4Open(ok) ==
    /\ ml4_pc = "start"
    /\ IF ok
       THEN /\ ml4_scope' = "open"
            /\ ml4_pc' = "setup"
       ELSE /\ ml4_pc' = "finally"
            /\ UNCHANGED ml4_scope
    /\ UNCHANGED <<ml4_handles, ml4_run_sent, ml4_stop_sent, ml4_run_written,
                   ml4_stop_attempts, ml4_chunks>>
    /\ UNCHANGED notML4

\* handle resolution (None for a symbol get_variable fails on), initial
\* writes, scope setup and the 0.5 s wait
ML4Setup(handles) ==
    /\ ml4_pc = "setup"
    /\ ml4_handles' = handles
    /\ ml4_pc' = "run"
    /\ UNCHANGED <<ml4_scope, ml4_run_sent, ml4_stop_sent, ml4_run_written,
                   ml4_stop_attempts, ml4_chunks>>
    /\ UNCHANGED notML4

\* "if run_var is not None: scope.write(run_var, 1)"; a write that raises
\* goes to "except Exception"
ML4RunWrite(raises) ==
    /\ ml4_pc = "run"
    /\ IF "run_req" \notin ml4_handles
       THEN /\ ml4_pc' = "loop"
            /\ UNCHANGED ml4_run_written
       ELSE IF raises
       THEN /\ ml4_pc' = "finally"
            /\ UNCHANGED ml4_run_written
       ELSE /\ ml4_pc' = "run_mark"
            /\ ml4_run_written' = TRUE
    /\ UNCHANGED <<ml4_scope, ml4_handles, ml4_run_sent, ml4_stop_sent,
                   ml4_stop_attempts, ml4_chunks>>
    /\ UNCHANGED notML4

\* "run_sent = True"
ML4RunMark ==
    /\ ml4_pc = "run_mark"
    /\ ml4_run_sent' = TRUE
    /\ ml4_pc' = "loop"
    /\ UNCHANGED <<ml4_scope, ml4_handles, ml4_stop_sent, ml4_run_written,
                   ml4_stop_attempts, ml4_chunks>>
    /\ UNCHANGED notML4

\* one pass of the 10 s loop in which a chunk is read
ML4Poll ==
    /\ ml4_pc = "loop"
    /\ ml4_chunks < MaxChunks
    /\ ml4_chunks' = ml4_chunks + 1
    /\ UNCHANGED <<ml4_pc, ml4_scope, ml4_handles, ml4_run_sent, ml4_stop_sent,
                   ml4_run_written, ml4_stop_attempts>>
    /\ UNCHANGED notML4

\* the loop ends after 10 s
ML4LoopExit ==
    /\ ml4_pc = "loop"
    /\ ml4_pc' = "stop"
    /\ UNCHANGED <<ml4_scope, ml4_handles, ml4_run_sent, ml4_stop_sent,
                   ml4_run_written, ml4_stop_attempts, ml4_chunks>>
    /\ UNCHANGED notML4

\* "if stop_var is not None: scope.write(stop_var, 1)"
ML4StopWrite(raises) ==
    /\ ml4_pc = "stop"
    /\ IF "stop_req" \notin ml4_handles
       THEN /\ ml4_pc' = "tail"
            /\ UNCHANGED ml4_stop_attempts
       ELSE /\ ml4_stop_attempts' = ml4_stop_attempts + 1
            /\ ml4_pc' = IF raises THEN "finally" ELSE "stop_mark"
    /\ UNCHANGED <<ml4_scope, ml4_handles, ml4_run_sent, ml4_stop_sent,
                   ml4_run_written, ml4_chunks>>
    /\ UNCHANGED notML4

\* "stop_sent = True"
ML4StopMark ==
    /\ ml4_pc = "stop_mark"
    /\ ml4_stop_sent' = TRUE
    /\ ml4_pc' = "tail"
    /\ UNCHANGED <<ml4_scope, ml4_handles, ml4_run_sent, ml4_run_written,
                   ml4_stop_attempts, ml4_chunks>>
    /\ UNCHANGED notML4

\* final read, time axis, CSV, plot; then the finally block
ML4Tail ==
    /\ ml4_pc = "tail"
    /\ ml4_pc' = "finally"
    /\ UNCHANGED <<ml4_scope, ml4_handles, ml4_run_sent, ml4_stop_sent,
                   ml4_run_written, ml4_stop_attempts, ml4_chunks>>
    /\ UNCHANGED notML4

\* a scope call outside an inner try raises: "except Exception", then finally
ML4Raise ==
    /\ ml4_pc \in {"setup", "loop", "tail"}
    /\ ml4_pc' = "finally"
    /\ UNCHANGED <<ml4_scope, ml4_handles, ml4_run_sent, ml4_stop_sent,
                   ml4_run_written, ml4_stop_attempts, ml4_chunks>>
    /\ UNCHANGED notML4

\* Ctrl-C between two statements of the try body: "except KeyboardInterrupt",
\* then finally (in "setup", "loop" and "tail" it has the effect of ML4Raise)
ML4Interrupt ==
    /\ ml4_pc \in {"run", "run_mark", "stop", "stop_mark"}
    /\ ml4_pc' = "finally"
    /\ UNCHANGED <<ml4_scope, ml4_handles, ml4_run_sent, ml4_stop_sent,
                   ml4_run_written, ml4_stop_attempts, ml4_chunks>>
    /\ UNCHANGED notML4

\* finally: "if scope is not None: if run_sent and not stop_sent: ..."
ML4Finally ==
    /\ ml4_pc = "finally"
    /\ ml4_pc' = IF ml4_scope = "none" THEN "end"
                 ELSE IF /\ ml4_run_sent /\ ~ml4_stop_sent
                         /\ "stop_req" \in ml4_handles
                      THEN "fin_write"
                      ELSE "close"
    /\ UNCHANGED <<ml4_scope, ml4_handles, ml4_run_sent, ml4_stop_sent,
                   ml4_run_written, ml4_stop_attempts, ml4_chunks>>
    /\ UNCHANGED notML4

\* finally: scope.write(stop_var, 1) inside try / except Exception
ML4FinallyWrite ==
    /\ ml4_pc = "fin_write"
    /\ ml4_stop_attempts' = ml4_stop_attempts + 1
    /\ ml4_pc' = "close"
    /\ UNCHANGED <<ml4_scope, ml4_handles, ml4_run_sent, ml4_stop_sent,
                   ml4_run_written, ml4_chunks>>
    /\ UNCHANGED notML4

\* finally: scope.close()
ML4Close ==
    /\ ml4_pc = "close"
    /\ ml4_scope' = "closed"
    /\ ml4_pc' = "end"
    /\ UNCHANGED <<ml4_handles, ml4_run_sent, ml4_stop_sent, ml4_run_written,
                   ml4_stop_attempts, ml4_chunks>>
    /\ UNCHANGED notML4

ML4Next ==
    \/ \E ok \in BOOLEAN : ML4Open(ok)
    \/ \E handles \in SUBSET ML4_CTRL : ML4Setup(handles)
    \/ \E raises \in BOOLEAN : ML4RunWrite(raises)
    \/ ML4RunMark
    \/ ML4Poll
    \/ ML4LoopExit
    \/ \E raises \in BOOLEAN : ML4StopWrite(raises)
    \/ ML4StopMark
    \/ ML4Tail
    \/ ML4Raise
    \/ ML4Interrupt
    \/ ML4Finally
    \/ ML4FinallyWrite
    \/ ML4Close

(***************************************************************************)
(* tkinter-best.py                                                         *)
(* The worker's clock is the phase its last "now" fell in: 0 before        *)
(* run_time, 1 in [run_time, stop_time), 2 from stop_time up to the        *)
(* timeout, 3 past the timeout (now - t0 > timeout).  _write_var_safe      *)
(* never raises and repeats one value, so a call is one write.             *)
(***************************************************************************)
confirm_needed == 3

\* self._cap_thread.is_alive()
TBAlive == tb_pc \notin {"none", "done"}

TBInit ==
    /\ tb_connected = FALSE
    /\ tb_start_btn = FALSE
    /\ tb_stop_btn = FALSE
    /\ tb_gui = "idle"
    /\ tb_pc = "none"
    /\ tb_stop_flag = FALSE
    /\ tb_done_pending = FALSE
    /\ tb_phase = 0
    /\ tb_run_set = FALSE
    /\ tb_stop_set = FALSE
    /\ tb_confirms = 0
    /\ tb_run_var = 0
    /\ tb_stop_var = 0
    /\ tb_wrote_run = FALSE
    /\ tb_wrote_stop = FALSE
    /\ tb_run_after_stop = FALSE
    /\ tb_user_stopped = FALSE
    /\ tb_confirmed = FALSE
    /\ tb_read = FALSE

\* the worker's locals and the record of what this worker has done
tbworker == <<tb_phase, tb_run_set, tb_stop_set, tb_confirms>>
tbrecord == <<tb_wrote_run, tb_wrote_stop, tb_run_after_stop, tb_confirmed,
              tb_read>>

\* _connect: ok = FALSE is a missing port / ELF or a scope call that raises
TBConnect(ok) ==
    /\ tb_gui = "idle"
    /\ ~tb_connected
    /\ ok
    /\ tb_connected' = TRUE
    /\ tb_start_btn' = TRUE
    /\ UNCHANGED <<tb_stop_btn, tb_gui, tb_pc, tb_stop_flag, tb_done_pending,
                   tb_run_var, tb_stop_var, tb_user_stopped, tbworker, tbrecord>>
    /\ UNCHANGED notTB

\* _start_capture: ok = FALSE is an entry that fails a check or no variable
\* selected
TBStartCapture(ok) ==
    /\ tb_gui = "idle"
    /\ tb_start_btn
    /\ ~TBAlive
    /\ ok
    /\ tb_connected
    /\ tb_stop_flag' = FALSE
    /\ tb_start_btn' = FALSE
    /\ tb_stop_btn' = TRUE
    /\ tb_pc' = "setup"
    /\ tb_phase' = 0
    /\ tb_run_set' = FALSE
    /\ tb_stop_set' = FALSE
    /\ tb_confirms' = 0
    /\ tb_wrote_run' = FALSE
    /\ tb_wrote_stop' = FALSE
    /\ tb_run_after_stop' = FALSE
    /\ tb_user_stopped' = FALSE
    /\ tb_confirmed' = FALSE
    /\ tb_read' = FALSE
    /\ UNCHANGED <<tb_connected, tb_gui, tb_done_pending, tb_run_var,
                   tb_stop_var>>
    /\ UNCHANGED notTB

\* _stop_capture from the STOP button: self._stop_flag.set()
TBStopCapture ==
    /\ tb_gui = "idle"
    /\ tb_stop_btn
    /\ tb_stop_flag' = TRUE
    /\ tb_user_stopped' = TRUE
    /\ tb_gui' = "sc_stop"
    /\ UNCHANGED <<tb_connected, tb_start_btn, tb_stop_btn, tb_pc,
                   tb_done_pending, tb_run_var, tb_stop_var, tbworker, tbrecord>>
    /\ UNCHANGED notTB

\* _disconnect: starts with self._stop_capture()
TBDisconnect ==
    /\ tb_gui = "idle"
    /\ tb_connected
    /\ tb_stop_flag' = TRUE
    /\ tb_user_stopped' = TRUE
    /\ tb_gui' = "dc_sc_stop"
    /\ UNCHANGED <<tb_connected, tb_start_btn, tb_stop_btn, tb_pc,
                   tb_done_pending, tb_run_var, tb_stop_var, tbworker, tbrecord>>
    /\ UNCHANGED notTB

\* _stop_capture: self._write_var_safe(self.stop_var, 1, repeats=2)
TBStopWriteStop ==
    /\ tb_gui \in {"sc_stop", "dc_sc_stop"}
    /\ tb_stop_var' = 1
    /\ tb_gui' = IF tb_gui = "sc_stop" THEN "sc_run" ELSE "dc_sc_run"
    /\ UNCHANGED <<tb_connected, tb_start_btn, tb_stop_btn, tb_pc, tb_stop_flag,
                   tb_done_pending, tb_run_var, tb_user_stopped, tbworker,
                   tbrecord>>
    /\ UNCHANGED notTB

\* _stop_capture: self._write_var_safe(self.run_var, 0, repeats=2)
TBStopWriteRun ==
    /\ tb_gui \in {"sc_run", "dc_sc_run"}
    /\ tb_run_var' = 0
    /\ tb_gui' = IF tb_gui = "sc_run" THEN "sc_join" ELSE "dc_sc_join"
    /\ UNCHANGED <<tb_connected, tb_start_btn, tb_stop_btn, tb_pc, tb_stop_flag,
                   tb_done_pending, tb_stop_var, tb_user_stopped, tbworker,
                   tbrecord>>
    /\ UNCHANGED notTB

\* _stop_capture: join(timeout=1.0) returns: the worker ended or 1 s went by
TBStopJoin ==
    /\ tb_gui \in {"sc_join", "dc_sc_join"}
    /\ tb_gui' = IF tb_gui = "sc_join" THEN "idle" ELSE "dc_run"
    /\ UNCHANGED <<tb_connected, tb_start_btn, tb_stop_btn, tb_pc, tb_stop_flag,
                   tb_done_pending, tb_run_var, tb_stop_var, tb_user_stopped,
                   tbworker, tbrecord>>
    /\ UNCHANGED notTB

\* _disconnect: self._write_var_safe(self.run_var, 0)
TBDiscWriteRun ==
    /\ tb_gui = "dc_run"
    /\ tb_run_var' = 0
    /\ tb_gui' = "dc_stop"
    /\ UNCHANGED <<tb_connected, tb_start_btn, tb_stop_btn, tb_pc, tb_stop_flag,
                   tb_done_pending, tb_stop_var, tb_user_stopped, tbworker,
                   tbrecord>>
    /\ UNCHANGED notTB

\* _disconnect: self._write_var_safe(self.stop_var, 0), scope.disconnect(),
\* buttons disabled
TBDiscWriteStop ==
    /\ tb_gui = "dc_stop"
    /\ tb_stop_var' = 0
    /\ tb_connected' = FALSE
    /\ tb_start_btn' = FALSE
    /\ tb_stop_btn' = FALSE
    /\ tb_gui' = "idle"
    /\ UNCHANGED <<tb_pc, tb_stop_flag, tb_done_pending, tb_run_var,
                   tb_user_stopped, tbworker, tbrecord>>
    /\ UNCHANGED notTB

\* _worker_done, run by the Tk main loop
TBWorkerDone ==
    /\ tb_gui = "idle"
    /\ tb_done_pending
    /\ tb_done_pending' = FALSE
    /\ tb_start_btn' = TRUE
    /\ tb_stop_btn' = FALSE
    /\ UNCHANGED <<tb_connected, tb_gui, tb_pc, tb_stop_flag, tb_run_var,
                   tb_stop_var, tb_user_stopped, tbworker, tbrecord>>
    /\ UNCHANGED notTB

\* _capture_worker up to the loop: configure_channels / set_sample_factor /
\* request raise (to "except Exception", then finally), or the baseline
\* RUN=0, STOP=0 is written and the loop is entered
TBSetup(raises) ==
    /\ tb_pc = "setup"
    /\ IF raises
       THEN /\ tb_pc' = "fin_run"
            /\ UNCHANGED <<tb_run_var, tb_stop_var>>
       ELSE /\ tb_pc' = "loop"
            /\ tb_run_var' = 0
            /\ tb_stop_var' = 0
    /\ UNCHANGED <<tb_connected, tb_start_btn, tb_stop_btn, tb_gui, tb_stop_flag,
                   tb_done_pending, tb_user_stopped, tbworker, tbrecord>>
    /\ UNCHANGED notTB

\* "while not self._stop_flag.is_set()" fails
TBLoopStop ==
    /\ tb_pc = "loop"
    /\ tb_stop_flag
    /\ tb_pc' = "cleanup"
    /\ UNCHANGED <<tb_connected, tb_start_btn, tb_stop_btn, tb_gui, tb_stop_flag,
                   tb_done_pending, tb_run_var, tb_stop_var, tb_user_stopped,
                   tbworker, tbrecord>>
    /\ UNCHANGED notTB

\* "if not run_set and now >= run_time" for now in phase p
TBDoRun(p) == ~tb_run_set /\ p >= 1

\* "if run_set and not stop_set and (now - last_run_refresh) >= 0.2"; due says
\* whether 200 ms went by (never in the pass that has just set run_set)
TBDoRefresh(p, due) == due /\ tb_run_set /\ ~tb_stop_set

\* "if not stop_set and now >= stop_time" for now in phase p
TBDoStop(p) == ~tb_stop_set /\ p >= 2

\* one pass of the loop up to the ready check: RUN assert, RUN refresh, then
\* STOP assert followed by RUN=0
TBPass(p, due) ==
    /\ tb_pc = "loop"
    /\ ~tb_stop_flag
    /\ p >= tb_phase
    /\ tb_phase' = p
    /\ tb_run_set' = (tb_run_set \/ TBDoRun(p))
    /\ tb_stop_set' = (tb_stop_set \/ TBDoStop(p))
    /\ tb_run_var' = IF TBDoStop(p) THEN 0
                     ELSE IF TBDoRun(p) \/ TBDoRefresh(p, due) THEN 1
                     ELSE tb_run_var
    /\ tb_stop_var' = IF TBDoStop(p) THEN 1 ELSE tb_stop_var
    /\ tb_wrote_run' = (tb_wrote_run \/ TBDoRun(p) \/ TBDoRefresh(p, due))
    /\ tb_wrote_stop' = (tb_wrote_stop \/ TBDoStop(p))
    /\ tb_run_after_stop' =
          (tb_run_after_stop
              \/ (tb_wrote_stop /\ (TBDoRun(p) \/ TBDoRefresh(p, due))))
    /\ tb_pc' = "ready"
    /\ UNCHANGED <<tb_connected, tb_start_btn, tb_stop_btn, tb_gui, tb_stop_flag,
                   tb_done_pending, tb_user_stopped, tb_confirms, tb_confirmed,
                   tb_read>>
    /\ UNCHANGED notTB

\* "if self.scope.ready():" with result r
TBReady(r) ==
    /\ tb_pc = "ready"
    /\ tb_pc' = IF r THEN "confirm" ELSE "timeout"
    /\ tb_confirms' = 0
    /\ UNCHANGED <<tb_connected, tb_start_btn, tb_stop_btn, tb_gui, tb_stop_flag,
                   tb_done_pending, tb_run_var, tb_stop_var, tb_user_stopped,
                   tb_phase, tb_run_set, tb_stop_set, tbrecord>>
    /\ UNCHANGED notTB

\* one confirmation, "if not self.scope.ready(): ok = False; break", with
\* result r; after confirm_needed of them "if ok: break" leaves the loop
TBConfirm(r) ==
    /\ tb_pc = "confirm"
    /\ IF ~r
       THEN /\ tb_pc' = "timeout"
            /\ tb_confirms' = 0
            /\ UNCHANGED tb_confirmed
       ELSE IF tb_confirms + 1 < confirm_needed
       THEN /\ tb_confirms' = tb_confirms + 1
            /\ UNCHANGED <<tb_pc, tb_confirmed>>
       ELSE /\ tb_pc' = "cleanup"
            /\ tb_confirms' = 0
            /\ tb_confirmed' = TRUE
    /\ UNCHANGED <<tb_connected, tb_start_btn, tb_stop_btn, tb_gui, tb_stop_flag,
                   tb_done_pending, tb_run_var, tb_stop_var, tb_user_stopped,
                   tb_phase, tb_run_set, tb_stop_set, tb_wrote_run,
                   tb_wrote_stop, tb_run_after_stop, tb_read>>
    /\ UNCHANGED notTB

\* "if (now - t0) > timeout: break", else the next pass
TBTimeout ==
    /\ tb_pc = "timeout"
    /\ tb_pc' = IF tb_phase = 3 THEN "cleanup" ELSE "loop"
    /\ UNCHANGED <<tb_connected, tb_start_btn, tb_stop_btn, tb_gui, tb_stop_flag,
                   tb_done_pending, tb_run_var, tb_stop_var, tb_user_stopped,
                   tbworker, tbrecord>>
    /\ UNCHANGED notTB

\* end-of-window cleanup (RUN=0, STOP=1 when stop_set), then
\* "if self._stop_flag.is_set(): return"
TBCleanup ==
    /\ tb_pc = "cleanup"
    /\ tb_run_var' = 0
    /\ tb_stop_var' = IF tb_stop_set THEN 1 ELSE tb_stop_var
    /\ tb_pc' = IF tb_stop_flag THEN "fin_run" ELSE "read"
    /\ UNCHANGED <<tb_connected, tb_start_btn, tb_stop_btn, tb_gui, tb_stop_flag,
                   tb_done_pending, tb_user_stopped, tbworker, tbrecord>>
    /\ UNCHANGED notTB

\* "raw = self.scope.read()" and the processing of raw; whether it returns or
\* raises, the finally block is next
TBRead ==
    /\ tb_pc = "read"
    /\ tb_read' = TRUE
    /\ tb_pc' = "fin_run"
    /\ UNCHANGED <<tb_connected, tb_start_btn, tb_stop_btn, tb_gui, tb_stop_flag,
                   tb_done_pending, tb_run_var, tb_stop_var, tb_user_stopped,
                   tbworker, tb_wrote_run, tb_wrote_stop, tb_run_after_stop,
                   tb_confirmed>>
    /\ UNCHANGED notTB

\* finally: self._write_var_safe(self.run_var, 0, repeats=2)
TBFinallyRun ==
    /\ tb_pc = "fin_run"
    /\ tb_run_var' = 0
    /\ tb_pc' = "fin_stop"
    /\ UNCHANGED <<tb_connected, tb_start_btn, tb_stop_btn, tb_gui, tb_stop_flag,
                   tb_done_pending, tb_stop_var, tb_user_stopped, tbworker,
                   tbrecord>>
    /\ UNCHANGED notTB

\* finally: self._write_var_safe(self.stop_var, 0, repeats=2), then
\* root.after(0, self._worker_done) and the thread ends
TBFinallyStop ==
    /\ tb_pc = "fin_stop"
    /\ tb_stop_var' = 0
    /\ tb_pc' = "done"
    /\ tb_done_pending' = TRUE
    /\ UNCHANGED <<tb_connected, tb_start_btn, tb_stop_btn, tb_gui, tb_stop_flag,
                   tb_run_var, tb_user_stopped, tbworker, tbrecord>>
    /\ UNCHANGED notTB

TBNext ==
    \/ \E ok \in BOOLEAN : TBConnect(ok)
    \/ \E ok \in BOOLEAN : TBStartCapture(ok)
    \/ TBStopCapture
    \/ TBDisconnect
    \/ TBStopWriteStop
    \/ TBStopWriteRun
    \/ TBStopJoin
    \/ TBDiscWriteRun
    \/ TBDiscWriteStop
    \/ TBWorkerDone
    \/ \E raises \in BOOLEAN : TBSetup(raises)
    \/ TBLoopStop
    \/ \E p \in 0..3, due \in BOOLEAN : TBPass(p, due)
    \/ \E r \in BOOLEAN : TBReady(r)
    \/ \E r \in BOOLEAN : TBConfirm(r)
    \/ TBTimeout
    \/ TBCleanup
    \/ TBRead
    \/ TBFinallyRun
    \/ TBFinallyStop

(***************************************************************************)
(* NewVersion.py                                                           *)
(* Sample intervals are whole milliseconds (1..MaxMs), base periods and    *)
(* self.scope_dt are in microseconds.  An absent value (Python None) is a  *)
(* record with loaded = FALSE.  The worker's clock is kept as for          *)
(* MotorLogger.py.                                                         *)
(***************************************************************************)
\* what _connect finds in data-model-dump.yaml: nothing usable (no file, no
\* yaml module, a parse error), or a current-loop period of 50 or 100 us
NVYaml ==
    { [loaded |-> FALSE, us |-> 0] }
    \cup { [loaded |-> TRUE, us |-> b] : b \in {50, 100} }

\* self._cap_thread.is_alive()
NVAlive == nv_pc \in {"prep", "loop"}

NVMax(a, b) == IF a >= b THEN a ELSE b

\* prepare_scope: max(int(round(desired_us / base_us)) - 1, 0)
NVPrescaler(sample_ms, base_us) ==
    NVMax(PyRound(NVMax(sample_ms, 1) * 1000, base_us) - 1, 0)

NVInit ==
    /\ nv_connected = FALSE
    /\ nv_base_us_override = [loaded |-> FALSE, us |-> 0]
    /\ nv_start_btn = FALSE
    /\ nv_stop_btn = FALSE
    /\ nv_pc = "none"
    /\ nv_stop_flag = FALSE
    /\ nv_done_pending = FALSE
    /\ nv_ts = 0
    /\ nv_prescaler = -1
    /\ nv_scope_dt = 0
    /\ nv_phase = 0
    /\ nv_run_set = FALSE
    /\ nv_stop_set = FALSE
    /\ nv_died = FALSE

\* _connect succeeds; base_us_override is assigned only when the YAML gave a
\* period
NVConnect(yaml) ==
    /\ ~nv_connected
    /\ nv_connected' = TRUE
    /\ nv_start_btn' = TRUE
    /\ nv_base_us_override' = IF yaml.loaded THEN yaml ELSE nv_base_us_override
    /\ UNCHANGED <<nv_stop_btn, nv_pc, nv_stop_flag, nv_done_pending, nv_ts,
                   nv_prescaler, nv_scope_dt, nv_phase, nv_run_set, nv_stop_set,
                   nv_died>>
    /\ UNCHANGED notNV

\* _disconnect: _stop_capture(), scope.disconnect(), buttons disabled
NVDisconnect ==
    /\ nv_connected
    /\ nv_stop_flag' = TRUE
    /\ nv_connected' = FALSE
    /\ nv_start_btn' = FALSE
    /\ nv_stop_btn' = FALSE
    /\ UNCHANGED <<nv_base_us_override, nv_pc, nv_done_pending, nv_ts,
                   nv_prescaler, nv_scope_dt, nv_phase, nv_run_set, nv_stop_set,
                   nv_died>>
    /\ UNCHANGED notNV

\* _start_capture with valid entries, a variable selected and a sample
\* interval of m ms; the other entries return early and change nothing
NVStartCapture(m) ==
    /\ nv_start_btn
    /\ ~NVAlive
    /\ nv_connected
    /\ nv_stop_flag' = FALSE
    /\ nv_ts' = m
    /\ nv_pc' = "prep"
    /\ nv_start_btn' = FALSE
    /\ nv_stop_btn' = TRUE
    /\ nv_phase' = 0
    /\ nv_run_set' = FALSE
    /\ nv_stop_set' = FALSE
    /\ nv_died' = FALSE
    /\ UNCHANGED <<nv_connected, nv_base_us_override, nv_done_pending,
                   nv_prescaler, nv_scope_dt>>
    /\ UNCHANGED notNV

\* _stop_capture, from the STOP button
NVStopCapture ==
    /\ nv_stop_btn
    /\ ~nv_stop_flag
    /\ nv_stop_flag' = TRUE
    /\ UNCHANGED <<nv_connected, nv_base_us_override, nv_start_btn, nv_stop_btn,
                   nv_pc, nv_done_pending, nv_ts, nv_prescaler, nv_scope_dt,
                   nv_phase, nv_run_set, nv_stop_set, nv_died>>
    /\ UNCHANGED notNV

\* the thread ends through the finally block, which queues _worker_done;
\* died says whether an exception ended it
NVThreadEnd(died) ==
    /\ nv_pc' = "done"
    /\ nv_done_pending' = TRUE
    /\ nv_died' = died
    /\ nv_phase' = 0
    /\ nv_run_set' = FALSE
    /\ nv_stop_set' = FALSE

\* _worker up to the loop: prepare_scope and the computation of scope_dt.
\* prepare_scope returns None when the scope is gone; otherwise it reads
\* base_us with getattr(self, "base_us_override", 50.0): the attribute always
\* exists, so an unloaded override gives None and "desired_us / base_us"
\* raises TypeError, which nothing in _worker catches
NVWorkerPrep ==
    /\ nv_pc = "prep"
    /\ IF ~nv_connected
       THEN /\ nv_scope_dt' = 1000 * nv_ts
            /\ nv_pc' = "loop"
            /\ UNCHANGED <<nv_prescaler, nv_done_pending, nv_died, nv_phase,
                           nv_run_set, nv_stop_set>>
       ELSE IF ~nv_base_us_override.loaded
       THEN /\ NVThreadEnd(TRUE)
            /\ UNCHANGED <<nv_prescaler, nv_scope_dt>>
       ELSE /\ nv_prescaler' = NVPrescaler(nv_ts, nv_base_us_override.us)
            /\ nv_scope_dt' = nv_base_us_override.us * (nv_prescaler' + 1)
            /\ nv_pc' = "loop"
            /\ UNCHANGED <<nv_done_pending, nv_died, nv_phase, nv_run_set,
                           nv_stop_set>>
    /\ UNCHANGED <<nv_connected, nv_base_us_override, nv_start_btn, nv_stop_btn,
                   nv_stop_flag, nv_ts>>
    /\ UNCHANGED notNV

\* _worker: one pass of the loop body, now in phase p: RUN at run_cmd_time,
\* STOP at stop_cmd_time, then the chunk read
NVWorkerPass(p) ==
    /\ nv_pc = "loop"
    /\ ~nv_stop_flag
    /\ p >= nv_phase
    /\ nv_phase' = p
    /\ nv_run_set' = (nv_run_set \/ p >= 1)
    /\ nv_stop_set' = (nv_stop_set \/ p >= 2)
    /\ UNCHANGED <<nv_connected, nv_base_us_override, nv_start_btn, nv_stop_btn,
                   nv_pc, nv_stop_flag, nv_done_pending, nv_ts, nv_prescaler,
                   nv_scope_dt, nv_died>>
    /\ UNCHANGED notNV

\* _worker: the while condition fails (stop flag, or time and samples are up)
\* and the thread ends; raises = TRUE is instead a scope call of the loop body
\* that raises
NVWorkerExit(raises) ==
    /\ nv_pc = "loop"
    /\ raises => ~nv_stop_flag
    /\ NVThreadEnd(raises)
    /\ UNCHANGED <<nv_connected, nv_base_us_override, nv_start_btn, nv_stop_btn,
                   nv_stop_flag, nv_ts, nv_prescaler, nv_scope_dt>>
    /\ UNCHANGED notNV

\* _worker_done, run by the Tk main loop
NVWorkerDone ==
    /\ nv_done_pending
    /\ nv_done_pending' = FALSE
    /\ nv_start_btn' = TRUE
    /\ nv_stop_btn' = FALSE
    /\ UNCHANGED <<nv_connected, nv_base_us_override, nv_pc, nv_stop_flag, nv_ts,
                   nv_prescaler, nv_scope_dt, nv_phase, nv_run_set, nv_stop_set,
                   nv_died>>
    /\ UNCHANGED notNV

NVNext ==
    \/ \E yaml \in NVYaml : NVConnect(yaml)
    \/ NVDisconnect
    \/ \E m \in 1..MaxMs : NVStartCapture(m)
    \/ NVStopCapture
    \/ NVWorkerPrep
    \/ \E p \in 0..3 : NVWorkerPass(p)
    \/ \E raises \in BOOLEAN : NVWorkerExit(raises)
    \/ NVWorkerDone

(***************************************************************************)
(* motor_logger_tk.py                                                      *)
(* stop_logging re-enables Start while a capture thread may still run, so  *)
(* several threads and queued _display_data callbacks can coexist.         *)
(***************************************************************************)
\* state after MotorLoggerApp.__init__; available says whether the import of
\* X2CScope at module load succeeded
TkStart(available) ==
    /\ tk_x2c_available = available
    /\ tk_scope = FALSE
    /\ tk_start_btn = TRUE
    /\ tk_stop_btn = FALSE
    /\ tk_msg = "none"
    /\ tk_running = 0
    /\ tk_queue = << >>
    /\ tk_output = "empty"

TkInit == \E available \in BOOLEAN : TkStart(available)

\* start_logging: "if not self._connect(): return", then the thread is started;
\* ok says whether X2CScope(...).connect() works when a connection is made
TkStartLogging(ok) ==
    /\ tk_start_btn
    /\ tk_running + Len(tk_queue) < MaxTkThreads
    /\ IF ~tk_x2c_available
       THEN /\ tk_msg' = "Dependency missing"
            /\ UNCHANGED <<tk_scope, tk_start_btn, tk_stop_btn, tk_running>>
       ELSE IF ~tk_scope /\ ~ok
       THEN /\ tk_msg' = "Connection error"
            /\ UNCHANGED <<tk_scope, tk_start_btn, tk_stop_btn, tk_running>>
       ELSE /\ tk_msg' = "none"
            /\ tk_scope' = TRUE
            /\ tk_start_btn' = FALSE
            /\ tk_stop_btn' = TRUE
            /\ tk_running' = tk_running + 1
    /\ UNCHANGED <<tk_x2c_available, tk_queue, tk_output>>
    /\ UNCHANGED notTk

\* stop_logging, from the Stop button
TkStopLogging ==
    /\ tk_stop_btn
    /\ tk_scope' = FALSE
    /\ tk_start_btn' = TRUE
    /\ tk_stop_btn' = FALSE
    /\ tk_msg' = "none"
    /\ UNCHANGED <<tk_x2c_available, tk_running, tk_queue, tk_output>>
    /\ UNCHANGED notTk

\* _capture_thread runs to its end: data read from the scope ("real"), or, when
\* any call raised, random values for the five variables ("synthetic"); then
\* root.after(0, self._display_data, data)
TkCaptureThread(kind) ==
    /\ tk_running > 0
    /\ kind = "real" => tk_scope
    /\ tk_running' = tk_running - 1
    /\ tk_queue' = Append(tk_queue, kind)
    /\ UNCHANGED <<tk_x2c_available, tk_scope, tk_start_btn, tk_stop_btn, tk_msg,
                   tk_output>>
    /\ UNCHANGED notTk

\* _display_data, run by the Tk main loop: show the data, then stop_logging()
TkDisplayData ==
    /\ tk_queue # << >>
    /\ tk_output' = Head(tk_queue)
    /\ tk_queue' = Tail(tk_queue)
    /\ tk_scope' = FALSE
    /\ tk_start_btn' = TRUE
    /\ tk_stop_btn' = FALSE
    /\ UNCHANGED <<tk_x2c_available, tk_msg, tk_running>>
    /\ UNCHANGED notTk

TkWorkerNext == \E kind \in {"real", "synthetic"} : TkCaptureThread(kind)

TkNext ==
    \/ \E ok \in BOOLEAN : TkStartLogging(ok)
    \/ TkStopLogging
    \/ TkWorkerNext
    \/ TkDisplayData

(***************************************************************************)
(* Feasibility panels: compute_feas (tkinter-best.py) and                  *)
(* compute_feasibility (motor_logger_gui.py).  The code works in floats;   *)
(* here every quotient is kept as an exact fraction num / den.             *)
(***************************************************************************)
\* ISR frequency of tkinter-best.py and loop frequency of motor_logger_gui.py
PWM_HZ == 20000
LOOP_HZ == 20000

\* sum(xs) of a list of integers
RECURSIVE PySum(_)
PySum(xs) == IF xs = << >> THEN 0 ELSE Head(xs) + PySum(Tail(xs))

\* the baud rates of the ballpark table
FeasBauds == {115200, 230400, 921600}

\* bytes-per-variable lists of the enabled variables: none, two or five
\* variables of 2 bytes, five of 4 bytes
FeasBvLists == { << >>, <<2, 2>>, <<2, 2, 2, 2, 2>>, <<4, 4, 4, 4, 4>> }

\* the entries of a panel
FeasInputs ==
    { [f |-> f, Bv_list |-> bv, baud |-> b] :
        f \in 0..MaxF, bv \in FeasBvLists, b \in FeasBauds }

\* _badge_from_ratio for the ratio num / den
badge_from_ratio(num, den) ==
    IF 10 * num < 4 * den THEN "GREEN"
    ELSE IF 10 * num < 7 * den THEN "AMBER"
    ELSE "RED"

\* compute_feas with the UART capacity taken as baud / 8
compute_feas_Baud8(inp) ==
    LET f == IF inp.f > 1 THEN inp.f ELSE 1
        V == Len(inp.Bv_list)
        bytes_per_sample == IF inp.Bv_list # << >> THEN PySum(inp.Bv_list) ELSE 2 * V
        cap_den == 8
        cap_num == inp.baud
        cap_floor == IF cap_num > cap_den THEN cap_num ELSE cap_den
    IN  [ computed |-> TRUE,
          f |-> f,
          Fs |-> [num |-> PWM_HZ, den |-> f],
          bytes_per_sample |-> bytes_per_sample,
          payload_Bps |-> [num |-> bytes_per_sample * PWM_HZ, den |-> f],
          uart_capacity_Bps |-> [num |-> cap_num, den |-> cap_den],
          uart_ratio |-> [num |-> bytes_per_sample * PWM_HZ * cap_den,
                          den |-> f * cap_floor],
          uart_badge |-> badge_from_ratio(bytes_per_sample * PWM_HZ * cap_den,
                                          f * cap_floor) ]

\* compute_feas: f = max(1, int(f)); Fs = PWM_HZ / f; bytes_per_sample;
\* payload_Bps = bytes_per_sample * Fs; uart_capacity_Bps = baud / 10;
\* ratio = payload_Bps / max(1.0, uart_capacity_Bps); badge
compute_feas(inp) ==
    LET f == IF inp.f > 1 THEN inp.f ELSE 1
        V == Len(inp.Bv_list)
        bytes_per_sample == IF inp.Bv_list # << >> THEN PySum(inp.Bv_list) ELSE 2 * V
        cap_den == 10
        cap_num == inp.baud
        cap_floor == IF cap_num > cap_den THEN cap_num ELSE cap_den
    IN  [ computed |-> TRUE,
          f |-> f,
          Fs |-> [num |-> PWM_HZ, den |-> f],
          bytes_per_sample |-> bytes_per_sample,
          payload_Bps |-> [num |-> bytes_per_sample * PWM_HZ, den |-> f],
          uart_capacity_Bps |-> [num |-> cap_num, den |-> cap_den],
          uart_ratio |-> [num |-> bytes_per_sample * PWM_HZ * cap_den,
                          den |-> f * cap_floor],
          uart_badge |-> badge_from_ratio(bytes_per_sample * PWM_HZ * cap_den,
                                          f * cap_floor) ]

\* compute_feasibility, called with f >= 1 (the spin box range) and baud > 0
compute_feasibility(inp) ==
    LET bytes_per_sample == PySum(inp.Bv_list)
        num == bytes_per_sample * LOOP_HZ * 10
        den == inp.f * inp.baud
    IN  [ computed |-> TRUE,
          Fs |-> [num |-> LOOP_HZ, den |-> inp.f],
          uart_bytes_per_sec |-> [num |-> bytes_per_sample * LOOP_HZ, den |-> inp.f],
          uart_capacity |-> [num |-> inp.baud, den |-> 10],
          load_ratio |-> [num |-> num, den |-> den],
          color |-> IF 10 * num > 7 * den THEN "red"
                    ELSE IF 10 * num > 4 * den THEN "orange"
                    ELSE "green" ]

\* nothing computed yet
FeasNone == [computed |-> FALSE]

\* a panel with entries inp before its first update
FeasStart(inp) ==
    /\ feas_inp = inp
    /\ feas_out = FeasNone
    /\ feas_res = FeasNone

FeasInit == \E inp \in FeasInputs : FeasStart(inp)

\* _update_feasibility (tkinter-best.py) and update_feasibility
\* (motor_logger_gui.py, which returns early without variables and whose
\* spin box keeps f >= 1) on the entries feas_inp
FeasUpdate ==
    /\ ~feas_out.computed
    /\ feas_out' = compute_feas(feas_inp)
    /\ feas_res' = IF feas_inp.Bv_list # << >> /\ feas_inp.f >= 1
                   THEN compute_feasibility(feas_inp)
                   ELSE FeasNone
    /\ UNCHANGED feas_inp
    /\ UNCHANGED notFeas

FeasNext == FeasUpdate

(***************************************************************************)
(* Specifications: one per program                                         *)
(***************************************************************************)
\* a program that is not the one running stays in one fixed start state
F10Off == F10Start(F10_CTRL)
MLOff == MLInit
ML4Off == ML4Init
TBOff == TBInit
NVOff == NVInit
TkOff == TkStart(TRUE)
FeasOff == FeasStart([f |-> 10, Bv_list |-> <<2, 2, 2, 2, 2>>, baud |-> 115200])

InitF10 == F10Init /\ MLOff /\ ML4Off /\ TBOff /\ NVOff /\ TkOff /\ FeasOff
InitML == MLInit /\ F10Off /\ ML4Off /\ TBOff /\ NVOff /\ TkOff /\ FeasOff
InitML4 == ML4Init /\ F10Off /\ MLOff /\ TBOff /\ NVOff /\ TkOff /\ FeasOff
InitTB == TBInit /\ F10Off /\ MLOff /\ ML4Off /\ NVOff /\ TkOff /\ FeasOff
InitNV == NVInit /\ F10Off /\ MLOff /\ ML4Off /\ TBOff /\ TkOff /\ FeasOff
InitTk == TkInit /\ F10Off /\ MLOff /\ ML4Off /\ TBOff /\ NVOff /\ FeasOff
InitFeas == FeasInit /\ F10Off /\ MLOff /\ ML4Off /\ TBOff /\ NVOff /\ TkOff

SpecF10 == InitF10 /\ [][F10Next]_vars
SpecML == InitML /\ [][MLNext]_vars
SpecML4 == InitML4 /\ [][ML4Next]_vars
SpecTB == InitTB /\ [][TBNext]_vars
SpecNV == InitNV /\ [][NVNext]_vars
SpecTk == InitTk /\ [][TkNext]_vars
SpecFeas == InitFeas /\ [][FeasNext]_vars

\* a started capture thread runs to its end and the Tk main loop runs the
\* callbacks queued with after()
SpecTkLive ==
    /\ SpecTk
    /\ WF_vars(TkWorkerNext)
    /\ WF_vars(TkDisplayData)

\* C1: for one CaptureWorker the RUN request is written at most once and the
\* STOP request is written at most once, whatever the interleaving of run()
\* with stop_early().
C1_OneShot == f10_run_writes <= 1 /\ f10_stop_writes <= 1

\* C2: every capture whose worker wrote RUN=1 has also written STOP=1 when
\* that worker finishes, whether the loop ended on time or on the stop flag.
C2_StopBeforeFinish ==
    [][(ml_pc = "loop" /\ ml_pc' = "done" /\ ml_run_sent) => ml_stop_sent]_vars

\* C3: whenever run_motor_logger has ended and the RUN request was written,
\* a write of the STOP request was at least attempted (before the scope was
\* closed), and a scope that was created has been closed.
C3_StopAndCloseOnEveryExit ==
    ml4_pc = "end" =>
        /\ ml4_run_written => ml4_stop_attempts > 0
        /\ ml4_scope # "open"

\* C4: a worker that reads the scope data in a capture the user did not stop
\* has written RUN=1 and STOP=1 before, and no worker writes RUN=1 after it
\* has written STOP=1 (so RUN comes first).
C4_TimedAsserts ==
    /\ (tb_read /\ ~tb_user_stopped) => (tb_wrote_run /\ tb_wrote_stop)
    /\ ~tb_run_after_stop

\* C5: once the capture worker has finished and the GUI thread is not inside
\* _stop_capture, the values last written to the RUN request and to the STOP
\* request are both 0, whatever the interleaving was.
C5_CleanDeassert ==
    (tb_pc = "done" /\ tb_gui = "idle") => (tb_run_var = 0 /\ tb_stop_var = 0)

\* C6: scope.read() is called only after a round in which ready() was true on
\* the first check and on each of the confirm_needed following checks.
C6_ReadyDoubleCheck == tb_read => tb_confirmed

\* C7: with no base period loaded from the YAML, the worker's prepare step
\* for an interval of m ms sets prescaler 20 m - 1, reports a sample period
\* of m ms and goes on to the capture loop.
C7_FallbackBasePeriod ==
    [][( /\ nv_pc = "prep" /\ nv_pc' # "prep"
         /\ nv_connected
         /\ ~nv_base_us_override.loaded ) =>
            /\ nv_pc' = "loop"
            /\ nv_prescaler' = 20 * nv_ts - 1
            /\ nv_scope_dt' = 1000 * nv_ts]_vars

\* C8: with X2CScope unavailable, pressing Start leads to synthetic values
\* being displayed.
C8_SyntheticFallback ==
    (~tk_x2c_available /\ tk_msg = "Dependency missing")
        ~> (tk_output = "synthetic")

\* C9: with the sample limit enforced the smallest interval a capture is
\* started with is n x the per-variable minimum delay, n the number of
\* selected variables (and 0, any positive interval, with the limit off).
C9_MinAllowedInterval ==
    [][(~MLAlive /\ MLAlive') =>
        \A inp \in MLInputs :
            MLStartCapture(inp) =>
                inp.dt >= (IF ml_enforce_limit
                           THEN 2 * Cardinality(inp.sel) * MIN_DELAY_MS
                           ELSE 0)]_vars

\* C10: with the guard on, _start_capture with an interval below MIN_DELAY_MS
\* starts no thread, writes no velocity reference and leaves the data buffer
\* alone; with the guard off the same positive interval starts a capture.
C10_GuardBlocksShortInterval ==
    [][/\ ml_enforce_limit =>
            \/ UNCHANGED <<ml_pc, ml_cmd_var, ml_data, ml_ts>>
            \/ \A inp \in MLInputs :
                    inp.dt < 2 * MIN_DELAY_MS => ~MLStartCapture(inp)
       /\ (~ml_enforce_limit /\ ml_start_btn /\ ml_connected /\ ~MLAlive) =>
            \A inp \in MLInputs :
                ( /\ inp.valid /\ inp.sel # {}
                  /\ inp.dt > 0 /\ inp.dt < 2 * MIN_DELAY_MS
                  /\ MLStartCapture(inp) ) =>
                    /\ ml_pc' = "prep"
                    /\ ml_ts' = inp.dt
                    /\ ml_cmd_var' = PyRound(inp.rpm, inp.scale)
                    /\ \A s \in DOMAIN ml_data' : ml_data'[s] = << >>]_vars

\* C10 witness: the guard has just refused a start while the buffer still
\* holds the previous capture
C10_Witness ==
    /\ ml_msg = "Sample interval"
    /\ ml_enforce_limit
    /\ "t" \in DOMAIN ml_data
    /\ ml_data["t"] # << >>

\* C11: the multipliers a capture works with are the ones entered on the
\* Scaling tab when it started (1 for an entry that is no number), they do not
\* change while the capture thread is alive, and every value the thread adds
\* to the list of a selected channel k, in any chunk, is the raw sample of k
\* times the multiplier of k; values already stored are never altered.
C11_ScalingOnTheFly ==
    [][/\ (~MLAlive /\ MLAlive') =>
            \A inp \in MLInputs :
                MLStartCapture(inp) =>
                    \A k \in inp.sel :
                        ml_scale_factors'[k] =
                            (IF inp.scl[k].num THEN inp.scl[k].val ELSE 1)
       /\ MLAlive => ml_scale_factors' = ml_scale_factors
       /\ (ml_data' # ml_data) =>
            \A k \in DOMAIN ml_data' \ {"t", "MotorRunning"} :
                \A j \in 1..Len(ml_data'[k]) :
                    IF k \in DOMAIN ml_data /\ j <= Len(ml_data[k])
                    THEN ml_data'[k][j] = ml_data[k][j]
                    ELSE /\ MLAlive
                         /\ ml_data'[k][j] = RawSample(k, j) * ml_scale_factors[k]]_vars

\* C11 witness: a finished capture in which an edited channel (multiplier 2)
\* and a channel whose entry is no number (multiplier 1) both hold two samples
C11_Witness ==
    /\ ml_pc = "done"
    /\ DOMAIN ml_data = KeySet \cup {"t", "MotorRunning"}
    /\ Len(ml_data[VAR_KEYS[1]]) = 2
    /\ Len(ml_data[VAR_KEYS[2]]) = 2
    /\ ml_scale_factors[VAR_KEYS[1]] = 2
    /\ ml_scale_factors[VAR_KEYS[2]] = 1
    /\ ml_data[VAR_KEYS[1]][2] = 2 * RawSample(VAR_KEYS[1], 2)
    /\ ml_data[VAR_KEYS[2]][2] = RawSample(VAR_KEYS[2], 2)

\* C12: once _worker_done has run for a finished capture and the time vector t
\* is not empty, every series of the buffer (each selected channel and
\* MotorRunning) is as long as t, and the k-th entry of t (counted from 0) is
\* k * ts, whatever list lengths the scope delivered per channel.
C12_EqualLengthSeries ==
    ( /\ ml_pc = "done"
      /\ ~ml_done_pending
      /\ "t" \in DOMAIN ml_data
      /\ ml_data["t"] # << >> ) =>
        /\ \A s \in DOMAIN ml_data : Len(ml_data[s]) = Len(ml_data["t"])
        /\ \A k \in 1..Len(ml_data["t"]) : ml_data["t"][k] = (k - 1) * ml_ts

\* C13: what on_capture_complete is handed is aligned: every channel list and
\* the time axis have the same length n, n is the sample count of the shortest
\* channel list the worker had collected and each list is its first n
\* samples, and the time axis is t[i] = i * Ts with Ts = 450 * 50 us =
\* 22500 us, whether or not the capture was stopped early.
C13_FixedTimeAxis ==
    [][/\ f10_last'.done =>
            /\ \A lbl \in DOMAIN f10_last'.data :
                    Len(f10_last'.data[lbl]) = Len(f10_last'.t)
            /\ \A i \in 1..Len(f10_last'.t) : f10_last'.t[i] = (i - 1) * 22500
            /\ TS_US = 22500
       /\ (f10_pc = "axis" /\ f10_pc' # "axis") =>
            /\ f10_last'.done
            /\ DOMAIN f10_last'.data = F10Labels
            /\ \E lbl \in F10Labels : Len(f10_last'.t) = Len(f10_data[lbl])
            /\ \A lbl \in F10Labels :
                    /\ Len(f10_last'.t) <= Len(f10_data[lbl])
                    /\ \A i \in 1..Len(f10_last'.t) :
                            f10_last'.data[lbl][i] = f10_data[lbl][i]]_vars

\* C13 witness: a capture that was stopped early has completed with two
\* samples per channel
C13_Witness ==
    /\ f10_last.done
    /\ f10_pc = "done"
    /\ f10_stop_flag
    /\ Len(f10_last.t) = 2
    /\ f10_last.t[2] = TS_US
    /\ \A lbl \in F10Labels : Len(f10_last.data[lbl]) = 2

\* C14: with five variables of 2 bytes each a sample has 10 bytes, Fs is
\* 20000 / f and the UART capacity is baud / 10 bytes per second, and for
\* every factor f the payload 10 * 20000 / f does not exceed the capacity
\* exactly when f >= 18 at 115200 baud, f >= 9 at 230400 baud and f >= 3 at
\* 921600 baud: these are the smallest such f.  Both panels compute it so.
C14_RuleOfThumb ==
    (feas_out.computed /\ feas_inp.Bv_list = <<2, 2, 2, 2, 2>>) =>
        LET f == feas_out.f
            baud == feas_inp.baud
            rule == IF baud = 115200 THEN 18
                    ELSE IF baud = 230400 THEN 9
                    ELSE 3
        IN  /\ baud \in {115200, 230400, 921600}
            /\ feas_out.bytes_per_sample = 10
            /\ feas_out.Fs = [num |-> 20000, den |-> f]
            /\ feas_out.payload_Bps = [num |-> 10 * 20000, den |-> f]
            /\ feas_out.uart_capacity_Bps = [num |-> baud, den |-> 10]
            /\ (feas_out.payload_Bps.num * feas_out.uart_capacity_Bps.den
                    <= feas_out.uart_capacity_Bps.num * feas_out.payload_Bps.den)
                <=> (f >= rule)
            /\ feas_res.computed =>
                    /\ feas_res.Fs = [num |-> 20000, den |-> f]
                    /\ feas_res.uart_capacity = [num |-> baud, den |-> 10]
                    /\ (feas_res.uart_bytes_per_sec.num * feas_res.uart_capacity.den
                            <= feas_res.uart_capacity.num * feas_res.uart_bytes_per_sec.den)
                        <=> (f >= rule)

\* C14 witness: the panel was updated for five 2-byte variables at 115200
\* baud with f = 18, and the payload fits
C14_Witness ==
    /\ feas_out.computed
    /\ feas_res.computed
    /\ feas_inp = [f |-> 18, Bv_list |-> <<2, 2, 2, 2, 2>>, baud |-> 115200]
    /\ feas_out.payload_Bps.num * 10 <= 115200 * feas_out.payload_Bps.den

====
